---- MODULE Spec2Model ----
(***************************************************************************)
(* Model of tools/service-connection.js: ServiceConnection, a blocking     *)
(* facade over a callback-driven DDP connection.                           *)
(*                                                                         *)
(* The facade's fields (connection, connected, currentFuture), the Future  *)
(* objects it creates and the invocations that created them are the state. *)
(* The transport (DDP connection) is not part of the file: it is modelled  *)
(* as an environment that may invoke any callback the facade has handed to *)
(* it (onConnected, the 'disconnect' listener, a result callback, onReady, *)
(* onError), each registered result/onReady/onError at most once.          *)
(*                                                                         *)
(* fibers/future semantics used by the file: Future.wait() returns (or     *)
(* throws) at once when the future is already resolved, otherwise yields   *)
(* the calling fiber; return()/throw() on an unresolved future run the     *)
(* waiting fiber synchronously; on a resolved future they throw            *)
(* "Future resolved more than once".                                       *)
(***************************************************************************)
EXTENDS Integers, Sequences, FiniteSets, TLC

VARIABLES connection, connected, currentFuture, futures, ops, transport,
          forcedIgnored, last, objects

vars == <<connection, connected, currentFuture, futures, ops, transport,
          forcedIgnored, last, objects>>

\* ---------------------------------------------------------------- bounds
\* Number of apply/call/subscribeAndWait invocations that get past the
\* "two things at once" check (each creates one Future).
MaxOps == 2

\* ------------------------------------------------------------- constants
NULL == 0
ConnectFuture == 1
\* self.connection after close()
Closed == "null"

NoError == "none"
Undefined == "undefined"
Errors == {"E1"}
Values == {"V1"}
Names == {"m"}
ArgLists == {<<>>, <<"a">>}
ForcedReconnectError == "DDP.ForcedReconnectError"

ErrTwoThings == "Can't wait on two things at once!"
ErrNobodyConnection == "nobody waiting for connection?"
ErrNotConnection == "waiting for something that isn't connection?"
ErrDisconnectBeforeConnect == "disconnect before connect?"
\* Faulty variant of ErrNobodyResult: the callback returns silently.
ErrNobodyResultSilent == NoError
ErrNobodyResult == "nobody listening for result?"
ErrNobodySubResult == "nobody listening for subscribe result?"
ErrDisconnected == "DDP disconnected"
ErrResolvedTwice == "Future resolved more than once"
TypeError == "TypeError"

\* The subscription handle the transport's subscribe returns for the
\* invocation that created future f.
SubHandles == <<"h1", "h2", "h3", "h4", "h5", "h6">>
Handle(f) == SubHandles[f]

\* error.errorType of a disconnect error
ErrorType(error) ==
  IF error = ForcedReconnectError THEN "DDP.ForcedReconnectError" ELSE "Error"

DisconnectErrors == {NoError, ForcedReconnectError} \cup Errors

\* (err, result) pairs a transport passes to a result callback
ResultPairs == {<<NoError, v>> : v \in Values} \cup {<<e, "null">> : e \in Errors}

\* ----------------------------------------------------------------- state
NewFuture == [resolved |-> FALSE, err |-> NoError, val |-> Undefined]

\* One invocation of the constructor, apply or subscribeAndWait: where its
\* fiber is (status; "calling" is inside the transport call, before
\* wait()), the future it waits on, how it ended (out), the state of the
\* callbacks it handed to the transport (cb), the local `sub`, and how
\* often its fiber yielded and was run again.
NewOp(kind) ==
  [kind |-> kind, status |-> "calling", waitOn |-> NULL, out |-> Undefined,
   cb |-> "none", sub |-> Undefined, suspends |-> 0, resumes |-> 0]

\* An invocation that has returned or raised has no fiber state left: what
\* remains of it is its callbacks in the transport.
Retire(o) ==
  IF o.status \in {"returned", "raised"}
  THEN [o EXCEPT !.waitOn = NULL, !.out = Undefined, !.suspends = 0,
                 !.resumes = 0]
  ELSE o

\* what the transport's apply/subscribe received before the callbacks
NoRequest == [name |-> "", args |-> <<>>]

\* The observable effects of one step: the handler or operation that ran
\* (act), the invocation it belongs to (op), the error and value the
\* transport passed in (err, val), the error thrown out of a transport
\* callback (thrown), the invocation whose fiber was run again (resumed),
\* the invocation that returned or raised in this step (finished, with
\* outcome, out, suspends, resumes; finished = 0 with outcome "raised" is a
\* call rejected before it created a Future), the caller's argument list
\* (argv, for call) and the request passed to the transport (sent).
Ev(act, op, err, val, thrown) ==
  [act |-> act, op |-> op, err |-> err, val |-> val, thrown |-> thrown,
   resumed |-> 0, finished |-> 0, outcome |-> "none", out |-> Undefined,
   suspends |-> 0, resumes |-> 0, argv |-> <<>>, sent |-> NoRequest]

Report(ev, i, o) ==
  IF o.status \in {"returned", "raised"}
  THEN [ev EXCEPT !.finished = i, !.outcome = o.status, !.out = o.out,
                  !.suspends = o.suspends, !.resumes = o.resumes]
  ELSE ev

\* ---------------------------------------------------- connect options
\* Option records are functions from field names to values; a field that
\* is not set is not in the domain.  An omitted `options` argument
\* contributes no field to _.extend, like the empty record.
EmptyObject == <<>>

\* the fields a caller may set, and the values it may give them
OptionKeys ==
  {"retry", "connectTimeoutMs", "onConnected", "headers", "_dontPrintErrors"}

OptionValues(k) ==
  CASE k = "retry" -> {"true", "false"}
    [] k = "connectTimeoutMs" -> {"10000", "15000"}
    [] k = "onConnected" -> {"caller.onConnected"}
    [] k = "headers" -> {"H1"}
    [] OTHER -> {"true"}

OptionLiterals == UNION {OptionValues(k) : k \in OptionKeys}

CallerOptions ==
  UNION {{o \in [D -> OptionLiterals] : \A k \in D : o[k] \in OptionValues(k)} :
           D \in SUBSET OptionKeys}

\* the options of the caller in the behaviours that start after construction
SomeOptions == [headers |-> "H1"]

\* the function of lines 38-46
OwnOnConnected == "ServiceConnection.onConnected"

ConnectTimeoutMs == "15000"

\* the third argument of _.extend in line 32
Overrides ==
  [connectTimeoutMs |-> ConnectTimeoutMs, retry |-> "false",
   onConnected |-> OwnOnConnected]

\* Faulty variant of Extend: a field that is already set is kept.
ExtendDefaults(obj, source) ==
  [k \in DOMAIN obj \cup DOMAIN source |->
     IF k \in DOMAIN obj THEN obj[k] ELSE source[k]]

\* One source of _.extend(obj, ...): every field of source is copied into
\* obj, over a field of the same name.
Extend(obj, source) ==
  [k \in DOMAIN obj \cup DOMAIN source |->
     IF k \in DOMAIN source THEN source[k] ELSE obj[k]]

\* _.extend(target, s1, s2) on the objects objs: the sources are read and
\* copied in order into the object in slot target, which is returned.
ExtendInto(objs, target, s1, s2) ==
  [objs EXCEPT ![target] = Extend(Extend(@, s1), s2)]

\* Lines 32-49: `options = _.extend({}, options, {...})`, then DDP.connect
\* receives the new record (slot connect); slot caller is the record the
\* caller passed in.
Merged(objs) ==
  ExtendInto([objs EXCEPT !.connect = EmptyObject], "connect", objs.caller,
             Overrides)

\* the constructing fiber at line 76
ConnectOp ==
  [NewOp("connect") EXCEPT !.status = "suspended", !.waitOn = ConnectFuture,
                           !.cb = "pending", !.suspends = 1]

\* A caller about to run `new ServiceConnection(Package, endpointUrl,
\* options)` with one of the option records.
OptionsInit ==
  /\ connection = Undefined
  /\ connected = Undefined
  /\ currentFuture = NULL
  /\ futures = <<>>
  /\ ops = <<>>
  /\ transport = [connect |-> 0, apply |-> 0, subscribe |-> 0, close |-> 0]
  /\ forcedIgnored = FALSE
  /\ last = Ev("new", 0, NoError, Undefined, NoError)
  /\ objects \in {[caller |-> o, connect |-> EmptyObject] : o \in CallerOptions}

\* Lines 28-76: the constructor up to connectFuture.wait().
Construct ==
  /\ ops = <<>>
  /\ objects' = Merged(objects)
  /\ connection' = "open"
  /\ currentFuture' = ConnectFuture
  /\ futures' = <<NewFuture>>
  /\ ops' = <<ConnectOp>>
  /\ transport' = [transport EXCEPT !.connect = @ + 1]
  /\ last' = Ev("init", 0, NoError, Undefined, NoError)
  /\ UNCHANGED <<connected, forcedIgnored>>

OptionsNext == Construct

OptionsSpec == OptionsInit /\ [][OptionsNext]_vars

\* The state at line 76: DDP.connect has been called with the facade's
\* options, connectFuture is the current future, the 'disconnect' listener
\* is installed and the constructing fiber is suspended in
\* connectFuture.wait().  self.connected has not been assigned yet.
Init ==
  /\ connection = "open"
  /\ connected = Undefined
  /\ currentFuture = ConnectFuture
  /\ futures = <<NewFuture>>
  /\ ops = <<ConnectOp>>
  /\ transport = [connect |-> 1, apply |-> 0, subscribe |-> 0, close |-> 0]
  /\ forcedIgnored = FALSE
  /\ last = Ev("init", 0, NoError, Undefined, NoError)
  /\ objects = Merged([caller |-> SomeOptions, connect |-> EmptyObject])

\* ------------------------------------------------------ Future mechanics
\* Faulty variant of OpReturnValue: subscribeAndWait returns the value of wait().
OpReturnValueOfWait(o, val) ==
  CASE o.kind \in {"apply", "sub"} -> val
    [] OTHER -> Undefined

\* What the blocked operation does once its wait() returns val or throws
\* err: the constructor returns, apply returns the value of wait(),
\* subscribeAndWait returns the local `sub`.
OpReturnValue(o, val) ==
  CASE o.kind = "apply" -> val
    [] o.kind = "sub" -> o.sub
    [] OTHER -> Undefined

Finished(o, err, val) ==
  IF err # NoError
  THEN [o EXCEPT !.status = "raised", !.out = err]
  ELSE [o EXCEPT !.status = "returned", !.out = OpReturnValue(o, val)]

Waiters(f) ==
  {i \in DOMAIN ops : ops[i].status = "suspended" /\ ops[i].waitOn = f}

\* the invocation whose fiber runs again when future f is resolved
\* (0: nobody is waiting on it, or it is already resolved)
WaiterOf(f) ==
  IF futures[f].resolved \/ Waiters(f) = {} THEN 0
  ELSE CHOOSE i \in Waiters(f) : TRUE

\* A resolved Future whose value no wait() is going to read.
Settled == [resolved |-> TRUE, err |-> NoError, val |-> Undefined]

\* Future.return / Future.throw on future f.  The value is read by the one
\* wait() of the invocation that created f: it is kept when that invocation
\* is still on its way to wait(); a fiber already suspended in wait() takes
\* it in this very step, and a finished invocation never reads it.
FutResolve(f, err, val) ==
  IF futures[f].resolved THEN futures
  ELSE IF ops[f].status = "calling"
       THEN [futures EXCEPT ![f] = [resolved |-> TRUE, err |-> err,
                                    val |-> val]]
       ELSE [futures EXCEPT ![f] = Settled]

\* the Futures once invocation f, now o, has passed its wait()
Collect(f, o) ==
  IF o.status \in {"returned", "raised"} /\ futures[f].resolved
  THEN [futures EXCEPT ![f] = Settled]
  ELSE futures

FutResolveThrows(f) ==
  IF futures[f].resolved THEN ErrResolvedTwice ELSE NoError

\* the fiber waiting on f runs on, up to the return or throw of the
\* blocking operation it is in
Resumed(o, err, val) ==
  [Finished(o, err, val) EXCEPT !.resumes = @ + 1]

OpsResume(o, f, err, val) ==
  IF WaiterOf(f) = 0 THEN o
  ELSE [o EXCEPT ![WaiterOf(f)] = Retire(Resumed(@, err, val))]

\* the record of a step that resolved future f
Resolved(ev, f, err, val) ==
  IF WaiterOf(f) = 0 THEN ev
  ELSE Report([ev EXCEPT !.resumed = WaiterOf(f)], WaiterOf(f),
              Resumed(ops[WaiterOf(f)], err, val))

\* Faulty variant of Cleared: the slot is left as it is.
ClearedForgotten == currentFuture

\* `self.currentFuture = null` in a callback that resolves the Future
Cleared == NULL

\* The facade has been returned to its caller and no fiber is inside one of
\* its blocking operations.
Idle ==
  /\ ops[ConnectFuture].status = "returned"
  /\ \A i \in DOMAIN ops : ops[i].status \notin {"calling", "suspended"}

\* ------------------------------------------------------ caller operations
\* Faulty variant of Busy: only the connect wait counts as outstanding.
BusyOnlyConnect == currentFuture = ConnectFuture

\* `if (self.currentFuture) throw Error("Can't wait on two things at once!")`
Busy == currentFuture # NULL

\* Who may invoke a blocking operation: the facade's caller when it is not
\* itself inside one, or another fiber while a wait is outstanding.
MayInvoke == Idle \/ currentFuture # NULL

\* The transport call of a started operation: self.connection is null after
\* close() (TypeError), the transport call may itself raise `tthrow`, or it
\* registers the callbacks and returns (for subscribe: the handle).
Started(o, f, tthrow) ==
  IF connection = Closed
  THEN [o EXCEPT !.status = "raised", !.out = TypeError]
  ELSE IF tthrow # NoError
       THEN [o EXCEPT !.status = "raised", !.out = tthrow]
       ELSE [o EXCEPT !.status = "calling", !.cb = "pending",
                      !.sub = IF o.kind = "sub" THEN Handle(f) ELSE Undefined]

\* the request the transport receives: none when self.connection is null
Request(name, args) ==
  IF connection = Closed THEN NoRequest ELSE [name |-> name, args |-> args]

TransportCalled(kind) ==
  IF connection = Closed THEN transport
  ELSE IF kind = "sub" THEN [transport EXCEPT !.subscribe = @ + 1]
  ELSE [transport EXCEPT !.apply = @ + 1]

\* Lines 88-105 (apply) and 113-143 (subscribeAndWait): the busy test, the new
\* Future, the callbacks and the transport call.  The caller is then at
\* the wait() of line 107 / 144 (status "calling").
Start(act, kind, name, args, argv, tthrow) ==
  /\ MayInvoke
  /\ IF Busy
     THEN /\ last' = [Ev(act, 0, NoError, Undefined, NoError) EXCEPT
                        !.outcome = "raised", !.out = ErrTwoThings,
                        !.argv = argv]
          /\ UNCHANGED <<connection, connected, currentFuture, futures, ops,
                         transport, forcedIgnored>>
     ELSE LET f == Len(futures) + 1
              o == Started(NewOp(kind), f, tthrow) IN
          /\ Len(futures) < MaxOps + 1
          /\ futures' = Append(futures, NewFuture)
          /\ currentFuture' = f
          /\ ops' = Append(ops, Retire(o))
          /\ transport' = TransportCalled(kind)
          /\ last' = [Report(Ev(act, f, NoError, Undefined, NoError), f, o)
                        EXCEPT !.argv = argv, !.sent = Request(name, args)]
          /\ UNCHANGED <<connection, connected, forcedIgnored>>
  /\ UNCHANGED objects

\* apply(name, args)
Apply(name, args, tthrow) ==
  Start("apply", "apply", name, args, <<>>, tthrow)

\* call(name, a1, ...): args = toArray(arguments); name = args.shift();
\* return self.apply(name, args)
Call(argv, tthrow) ==
  Start("call", "apply", Head(argv), Tail(argv), argv, tthrow)

\* subscribeAndWait(name, a1, ...)
SubscribeAndWait(name, args, tthrow) ==
  Start("subscribeAndWait", "sub", name, args, <<>>, tthrow)

\* Faulty variant of Wait: yields without looking at isResolved().
WaitAlwaysYields(o, w) ==
  [o EXCEPT !.status = "suspended", !.waitOn = w, !.suspends = @ + 1]

\* wait() on future w by the fiber of invocation o
Wait(o, w) ==
  IF futures[w].resolved
  THEN Finished(o, futures[w].err, futures[w].val)
  ELSE [o EXCEPT !.status = "suspended", !.waitOn = w, !.suspends = @ + 1]

\* Line 107: `return self.currentFuture.wait()`.
ApplyWait(f) ==
  /\ f \in DOMAIN ops
  /\ ops[f].kind = "apply"
  /\ ops[f].status = "calling"
  /\ LET o == IF currentFuture = NULL
              THEN [ops[f] EXCEPT !.status = "raised", !.out = TypeError]
              ELSE Wait(ops[f], currentFuture) IN
     /\ ops' = [ops EXCEPT ![f] = Retire(o)]
     /\ futures' = Collect(f, o)
     /\ last' = Report(Ev("applyWait", f, NoError, Undefined, NoError), f, o)
  /\ UNCHANGED <<connection, connected, currentFuture, transport,
                 forcedIgnored>>
  /\ UNCHANGED objects

\* Lines 144-145: `subFuture.wait(); return sub;`
SubWait(f) ==
  /\ f \in DOMAIN ops
  /\ ops[f].kind = "sub"
  /\ ops[f].status = "calling"
  /\ LET o == Wait(ops[f], f) IN
     /\ ops' = [ops EXCEPT ![f] = Retire(o)]
     /\ futures' = Collect(f, o)
     /\ last' = Report(Ev("subWait", f, NoError, Undefined, NoError), f, o)
  /\ UNCHANGED <<connection, connected, currentFuture, transport,
                 forcedIgnored>>
  /\ UNCHANGED objects

\* Faulty variant of HasConnection: close() does not look at the handle.
HasConnectionAlways == TRUE

\* `if (self.connection)` in close()
HasConnection == connection # Closed

\* Faulty variant of Close: closing also abandons the outstanding wait.
CloseCancelsWait ==
  /\ ops[ConnectFuture].status = "returned"
  /\ \A i \in DOMAIN ops : ops[i].status # "calling"
  /\ IF HasConnection
     THEN /\ transport' = [transport EXCEPT !.close = @ + 1]
          /\ connection' = Closed
     ELSE UNCHANGED <<transport, connection>>
  /\ currentFuture' = NULL
  /\ last' = Ev("close", 0, NoError, Undefined, NoError)
  /\ UNCHANGED <<connected, futures, ops, forcedIgnored>>
  /\ UNCHANGED objects

\* close()
Close ==
  /\ ops[ConnectFuture].status = "returned"
  /\ \A i \in DOMAIN ops : ops[i].status # "calling"
  /\ IF HasConnection
     THEN /\ transport' = [transport EXCEPT !.close = @ + 1]
          /\ connection' = Closed
     ELSE UNCHANGED <<transport, connection>>
  /\ last' = Ev("close", 0, NoError, Undefined, NoError)
  /\ UNCHANGED <<connected, currentFuture, futures, ops, forcedIgnored>>
  /\ UNCHANGED objects

\* ------------------------------------------------------ transport events
\* Faulty variant of OnConnected: `self.currentFuture = null` is missing.
OnConnectedKeepsWait ==
  /\ connected' = "true"
  /\ IF currentFuture = NULL
     THEN /\ last' = Ev("onConnected", ConnectFuture, NoError, Undefined,
                        ErrNobodyConnection)
          /\ UNCHANGED <<currentFuture, futures, ops>>
     ELSE IF currentFuture # ConnectFuture
     THEN /\ last' = Ev("onConnected", ConnectFuture, NoError, Undefined,
                        ErrNotConnection)
          /\ UNCHANGED <<currentFuture, futures, ops>>
     ELSE /\ UNCHANGED currentFuture
          /\ futures' = FutResolve(ConnectFuture, NoError, Undefined)
          /\ ops' = OpsResume(ops, ConnectFuture, NoError, Undefined)
          /\ last' = Resolved(Ev("onConnected", ConnectFuture, NoError,
                                 Undefined, FutResolveThrows(ConnectFuture)),
                              ConnectFuture, NoError, Undefined)
  /\ UNCHANGED <<connection, transport, forcedIgnored>>
  /\ UNCHANGED objects

\* `self.currentFuture !== connectFuture`
NotConnectWait == currentFuture # ConnectFuture

\* options.onConnected
OnConnected ==
  /\ connected' = "true"
  /\ IF currentFuture = NULL
     THEN /\ last' = Ev("onConnected", ConnectFuture, NoError, Undefined,
                        ErrNobodyConnection)
          /\ UNCHANGED <<currentFuture, futures, ops>>
     ELSE IF NotConnectWait
     THEN /\ last' = Ev("onConnected", ConnectFuture, NoError, Undefined,
                        ErrNotConnection)
          /\ UNCHANGED <<currentFuture, futures, ops>>
     ELSE /\ currentFuture' = Cleared
          /\ futures' = FutResolve(ConnectFuture, NoError, Undefined)
          /\ ops' = OpsResume(ops, ConnectFuture, NoError, Undefined)
          /\ last' = Resolved(Ev("onConnected", ConnectFuture, NoError,
                                 Undefined, FutResolveThrows(ConnectFuture)),
                              ConnectFuture, NoError, Undefined)
  /\ UNCHANGED <<connection, transport, forcedIgnored>>
  /\ UNCHANGED objects

\* Faulty variant of IsForcedReconnect: the errorType is misspelt.
IsForcedReconnectTypo(error) ==
  error # NoError /\ ErrorType(error) = "DDP.ForceReconnectError"

\* `error && error.errorType === "DDP.ForcedReconnectError"`
IsForcedReconnect(error) ==
  error # NoError /\ ErrorType(error) = "DDP.ForcedReconnectError"

\* Faulty variant of DisconnectFailure: no default error.
DisconnectFailureNoDefault(error) == error

\* `error || new Error("DDP disconnected")`
DisconnectFailure(error) ==
  IF error # NoError THEN error ELSE ErrDisconnected

\* Faulty variant of ConnectResolved: the test is negated.
ConnectResolvedNegated == ~futures[ConnectFuture].resolved

\* `connectFuture.isResolved()`
ConnectResolved == futures[ConnectFuture].resolved

\* Faulty variant of Unhandled: the error nobody waits for is dropped.
UnhandledDropped(error) == NoError

\* `else if (error) throw error`: what the listener throws when nobody is
\* waiting (NoError: nothing)
Unhandled(error) == error

\* Faulty variant of MarkDisconnected: a forced reconnect leaves the flag.
MarkDisconnectedUnlessForced(error) ==
  IF error = ForcedReconnectError THEN connected ELSE "false"

\* `self.connected = false`, the first statement of the listener
MarkDisconnected(error) == "false"

\* the 'disconnect' listener on connection._stream
Disconnect(error) ==
  /\ error \in DisconnectErrors
  /\ connected' = MarkDisconnected(error)
  /\ IF IsForcedReconnect(error)
     THEN /\ IF ConnectResolved
             THEN /\ last' = Ev("disconnect", 0, error, Undefined,
                                ErrDisconnectBeforeConnect)
                  /\ UNCHANGED forcedIgnored
             ELSE /\ last' = Ev("disconnect", 0, error, Undefined, NoError)
                  /\ forcedIgnored' = TRUE
          /\ UNCHANGED <<currentFuture, futures, ops>>
     ELSE /\ IF currentFuture # NULL
             THEN LET fut == currentFuture IN
                  /\ currentFuture' = Cleared
                  /\ futures' = FutResolve(fut, DisconnectFailure(error),
                                           Undefined)
                  /\ ops' = OpsResume(ops, fut, DisconnectFailure(error),
                                      Undefined)
                  /\ last' = Resolved(Ev("disconnect", fut, error, Undefined,
                                         FutResolveThrows(fut)),
                                      fut, DisconnectFailure(error), Undefined)
             ELSE /\ last' = Ev("disconnect", 0, error, Undefined,
                                Unhandled(error))
                  /\ UNCHANGED <<currentFuture, futures, ops>>
          /\ UNCHANGED forcedIgnored
  /\ UNCHANGED <<connection, transport>>
  /\ UNCHANGED objects

\* the result callback apply appended to the arguments of invocation f
Result(f, err, result) ==
  /\ f \in DOMAIN ops
  /\ ops[f].kind = "apply"
  /\ ops[f].cb = "pending"
  /\ IF currentFuture = NULL
     THEN /\ ops' = [ops EXCEPT ![f].cb = "done"]
          /\ last' = Ev("result", f, err, result, ErrNobodyResult)
          /\ UNCHANGED <<currentFuture, futures>>
     ELSE LET fut == currentFuture IN
          /\ currentFuture' = Cleared
          /\ futures' = FutResolve(fut, err, result)
          /\ ops' = [OpsResume(ops, fut, err, result) EXCEPT ![f].cb = "done"]
          /\ last' = Resolved(Ev("result", f, err, result,
                                 FutResolveThrows(fut)), fut, err, result)
  /\ UNCHANGED <<connection, connected, transport, forcedIgnored>>
  /\ UNCHANGED objects

\* onReady of the subscription made by invocation f
OnReady(f) ==
  /\ f \in DOMAIN ops
  /\ ops[f].kind = "sub"
  /\ ops[f].cb = "pending"
  /\ IF currentFuture = NULL
     THEN /\ ops' = [ops EXCEPT ![f].cb = "ready"]
          /\ last' = Ev("onReady", f, NoError, Undefined, ErrNobodySubResult)
          /\ UNCHANGED <<currentFuture, futures>>
     ELSE LET fut == currentFuture IN
          /\ currentFuture' = Cleared
          /\ futures' = FutResolve(fut, NoError, Undefined)
          /\ ops' = [OpsResume(ops, fut, NoError, Undefined)
                       EXCEPT ![f].cb = "ready"]
          /\ last' = Resolved(Ev("onReady", f, NoError, Undefined,
                                 FutResolveThrows(fut)),
                              fut, NoError, Undefined)
  /\ UNCHANGED <<connection, connected, transport, forcedIgnored>>
  /\ UNCHANGED objects

\* Faulty variant of OwnSlot: any outstanding wait is taken for the subscription's.
OwnSlotAny(f) == currentFuture # NULL

\* `self.currentFuture === subFuture` in onError of invocation f
OwnSlot(f) == currentFuture = f

\* onError of the subscription made by invocation f: the `throw e` of line
\* 139 follows the if block, so it is reached on both paths (unless
\* subFuture.throw itself threw).
OnError(f, e) ==
  /\ f \in DOMAIN ops
  /\ ops[f].kind = "sub"
  /\ ops[f].cb \in {"pending", "ready"}
  /\ e \in Errors
  /\ IF OwnSlot(f)
     THEN /\ currentFuture' = Cleared
          /\ futures' = FutResolve(f, e, Undefined)
          /\ ops' = [OpsResume(ops, f, e, Undefined) EXCEPT ![f].cb = "done"]
          /\ last' = Resolved(Ev("onError", f, e, Undefined,
                                 IF FutResolveThrows(f) # NoError
                                 THEN FutResolveThrows(f) ELSE e),
                              f, e, Undefined)
     ELSE /\ ops' = [ops EXCEPT ![f].cb = "done"]
          /\ last' = Ev("onError", f, e, Undefined, e)
          /\ UNCHANGED <<currentFuture, futures>>
  /\ UNCHANGED <<connection, connected, transport, forcedIgnored>>
  /\ UNCHANGED objects

\* ----------------------------------------------------------- transitions
CallArgv == {<<n>> \o a : n \in Names, a \in ArgLists}
TransportThrows == {NoError, "E1"}

Next ==
  \/ \E n \in Names, a \in ArgLists, t \in TransportThrows : Apply(n, a, t)
  \/ \E v \in CallArgv, t \in TransportThrows : Call(v, t)
  \/ \E n \in Names, a \in ArgLists, t \in TransportThrows :
       SubscribeAndWait(n, a, t)
  \/ \E f \in DOMAIN ops : ApplyWait(f)
  \/ \E f \in DOMAIN ops : SubWait(f)
  \/ Close
  \/ OnConnected
  \/ \E error \in DisconnectErrors : Disconnect(error)
  \/ \E f \in DOMAIN ops, r \in ResultPairs : Result(f, r[1], r[2])
  \/ \E f \in DOMAIN ops : OnReady(f)
  \/ \E f \in DOMAIN ops, e \in Errors : OnError(f, e)

Spec == Init /\ [][Next]_vars

TypeOK ==
  /\ connection \in {"open", Closed}
  /\ connected \in {Undefined, "true", "false"}
  /\ currentFuture \in 0..(MaxOps + 1)
  /\ Len(futures) = Len(ops)
  /\ forcedIgnored \in BOOLEAN

\* The transport delivers to a suspended invocation f its completion
\* callback or a disconnect that is not a forced reconnect.
Completion(f) ==
  /\ f \in DOMAIN ops
  /\ ops[f].status = "suspended"
  /\ \/ f = ConnectFuture /\ OnConnected
     \/ \E r \in ResultPairs : Result(f, r[1], r[2])
     \/ OnReady(f)
     \/ \E e \in Errors : OnError(f, e)
     \/ \E error \in DisconnectErrors \ {ForcedReconnectError} :
          Disconnect(error)

\* the caller's code runs on from the transport call to wait()
CallerStep == \E f \in DOMAIN ops : ApplyWait(f) \/ SubWait(f)

\* Spec with the scheduling the claims on termination assume: a fiber that
\* is between the transport call and wait() reaches wait(), and the
\* transport eventually delivers a completion or a disconnect to a
\* suspended invocation.
LiveSpec ==
  /\ Spec
  /\ WF_vars(CallerStep)
  /\ WF_vars(\E f \in 1..(MaxOps + 1) : Completion(f))

\* ---------------------------------------------------------------- claims
StartActs == {"apply", "call", "subscribeAndWait"}
Outstanding == {f \in DOMAIN futures : ~futures[f].resolved}
InFlight(f) == f \in DOMAIN ops /\ ops[f].status \in {"calling", "suspended"}
Suspended(f) == f \in DOMAIN ops /\ ops[f].status = "suspended"

\* C1: at most one wait slot is outstanding in every reachable state (the
\* only unresolved Future is currentFuture, and at most one fiber is
\* suspended), and an apply, call or subscribeAndWait started while
\* currentFuture is non-null raises "Can't wait on two things at once!"
\* without a transport call, leaving currentFuture, connected, the futures
\* and the invocations unchanged.
C1_AtMostOne ==
  /\ Cardinality(Outstanding) <= 1
  /\ Outstanding \subseteq {currentFuture}
  /\ Cardinality({f \in DOMAIN ops : ops[f].status = "suspended"}) <= 1

C1_RejectedStep ==
  (currentFuture # NULL /\ last'.act \in StartActs)
    => /\ last'.outcome = "raised"
       /\ last'.out = ErrTwoThings
       /\ last'.finished = 0
       /\ last'.sent = NoRequest
       /\ UNCHANGED <<currentFuture, connected, futures, ops, transport>>

C1_SingleSlot == [](C1_AtMostOne) /\ [][C1_RejectedStep]_vars

\* C1 witness: a subscribeAndWait was rejected while an apply is suspended.
C1_Witness ==
  /\ last.act = "subscribeAndWait"
  /\ last.out = ErrTwoThings
  /\ \E f \in DOMAIN ops : ops[f].kind = "apply" /\ ops[f].status = "suspended"

\* C2 (the claim as stated): for an apply or call in flight, (a) its result
\* callback invoked with (null, V) makes it return V and with (E, null)
\* makes it raise E, whether the callback runs while the caller is
\* suspended or before it reached wait(); (b) it returns only after its
\* own result callback has fired; (c) call(name, a...) passes the transport
\* the request apply(name, [a...]) passes.
C2_Step ==
  \A f \in DOMAIN ops :
    (ops[f].kind = "apply" /\ InFlight(f)) =>
      /\ (last'.act = "result" /\ last'.op = f /\ ops[f].status = "suspended")
           => /\ last'.finished = f
              /\ IF last'.err = NoError
                 THEN last'.outcome = "returned" /\ last'.out = last'.val
                 ELSE last'.outcome = "raised" /\ last'.out = last'.err
      /\ (last'.act = "applyWait" /\ last'.op = f /\ futures[f].resolved
            /\ ops[f].cb = "done")
           => /\ last'.finished = f
              /\ IF futures[f].err = NoError
                 THEN last'.outcome = "returned"
                      /\ last'.out = futures[f].val
                 ELSE last'.outcome = "raised" /\ last'.out = futures[f].err
      /\ (last'.finished = f /\ last'.outcome = "returned")
           => ops'[f].cb = "done"

C2_CallForwards ==
  (last'.act = "call" /\ last'.finished = 0 /\ last'.outcome = "none")
    => last'.sent = [name |-> Head(last'.argv), args |-> Tail(last'.argv)]

C2_ApplyResult == [][C2_Step /\ C2_CallForwards]_vars

\* C3: a disconnect that is not a forced reconnect and arrives while a wait
\* is pending clears currentFuture and resolves that Future with the
\* supplied error, or with "DDP disconnected" when there is none: a caller
\* blocked on it raises that error, and a caller on its way to wait() finds
\* it in the Future.
C3_Step ==
  (last'.act = "disconnect" /\ last'.err # ForcedReconnectError
     /\ currentFuture # NULL)
    => LET f == currentFuture
           failure == IF last'.err = NoError THEN ErrDisconnected
                      ELSE last'.err IN
       /\ currentFuture' = NULL
       /\ ~futures[f].resolved
       /\ futures'[f].resolved
       /\ ops[f].status = "calling" => futures'[f].err = failure
       /\ last'.thrown = NoError
       /\ \A i \in DOMAIN ops :
            (ops[i].status = "suspended" /\ ops[i].waitOn = f)
              => /\ last'.finished = i
                 /\ last'.outcome = "raised"
                 /\ last'.out = failure
                 /\ ops'[i].status = "raised"

C3_DisconnectFailsWait == [][C3_Step]_vars

\* C3 witness: a disconnect without error made a suspended subscribeAndWait
\* raise "DDP disconnected".
C3_Witness ==
  /\ last.act = "disconnect"
  /\ last.err = NoError
  /\ last.finished # 0
  /\ ops[last.finished].kind = "sub"
  /\ last.outcome = "raised"
  /\ last.out = ErrDisconnected

\* C4: for a subscribeAndWait in flight whose Future is the current one,
\* onReady makes it return the handle the transport's subscribe returned
\* and onError(E) makes it raise E, as soon as the caller is (or once it
\* gets) in wait(); currentFuture is null when the caller resumes.
C4_Step ==
  \A f \in DOMAIN ops :
    (ops[f].kind = "sub" /\ InFlight(f)) =>
      /\ (last'.act = "onReady" /\ currentFuture = f
            /\ ops[f].status = "suspended")
           => /\ last'.finished = f
              /\ last'.outcome = "returned"
              /\ last'.out = Handle(f)
              /\ currentFuture' = NULL
      /\ (last'.act = "onError" /\ last'.op = f /\ currentFuture = f
            /\ ops[f].status = "suspended")
           => /\ last'.finished = f
              /\ last'.outcome = "raised"
              /\ last'.out = last'.err
              /\ currentFuture' = NULL
      /\ (currentFuture = f /\ ops[f].status = "calling"
            /\ \/ last'.act = "onReady"
               \/ last'.act = "onError" /\ last'.op = f)
           => /\ currentFuture' = NULL
              /\ futures'[f].resolved
              /\ futures'[f].err = last'.err
      /\ (last'.act = "subWait" /\ last'.op = f /\ futures[f].resolved)
           => /\ last'.finished = f
              /\ currentFuture' = NULL
              /\ IF futures[f].err = NoError
                 THEN last'.outcome = "returned" /\ last'.out = Handle(f)
                 ELSE last'.outcome = "raised" /\ last'.out = futures[f].err

C4_SubscribeResult == [][C4_Step]_vars

\* C4 witness: onReady resumed a suspended subscribeAndWait, which returned
\* its handle.
C4_Witness ==
  /\ last.act = "onReady"
  /\ last.finished = last.op
  /\ last.outcome = "returned"
  /\ last.out = Handle(last.op)
  /\ last.suspends = 1

\* C5 (the claim as stated, for the events that find a caller blocked on
\* the current Future): an error the transport delivers (a result
\* callback's err, onError's e, the error of a disconnect that is not a
\* forced reconnect) is either raised by one blocked caller or re-raised as
\* unhandled, never both and never neither.
C5_Step ==
  (/\ last'.act \in {"result", "onError", "disconnect"}
   /\ last'.err \in Errors
   /\ Waiters(currentFuture) # {})
    => LET delivered == /\ last'.finished # 0
                        /\ last'.outcome = "raised"
                        /\ last'.out = last'.err
           rethrown == last'.thrown = last'.err IN
       /\ delivered \/ rethrown
       /\ ~(delivered /\ rethrown)

C5_ExactlyOneOutcome == [][C5_Step]_vars

\* C6 (the claim as stated): onConnected on the connect wait sets
\* connected, clears currentFuture and runs the constructor once; once the
\* constructor has raised, connected is never true.
C6_SuccessStep ==
  (last'.act = "onConnected" /\ currentFuture = ConnectFuture)
    => /\ connected' = "true"
       /\ currentFuture' = NULL
       /\ last'.thrown = NoError
       /\ Suspended(ConnectFuture)
            => /\ last'.finished = ConnectFuture
               /\ last'.outcome = "returned"
               /\ last'.resumes = 1

C6_OnceStep ==
  /\ ~Suspended(ConnectFuture) => last'.finished # ConnectFuture
  /\ ops[ConnectFuture].status \in {"returned", "raised"}
       => ops'[ConnectFuture].status = ops[ConnectFuture].status

C6_FailureStep ==
  (last'.act = "disconnect" /\ last'.finished = ConnectFuture)
    => /\ last'.outcome = "raised"
       /\ last'.out = IF last'.err = NoError THEN ErrDisconnected
                      ELSE last'.err
       /\ connected' = "false"

C6_NeverConnectedAfterFailure ==
  ops[ConnectFuture].status = "raised" => connected # "true"

C6_Original ==
  /\ [][C6_SuccessStep /\ C6_OnceStep /\ C6_FailureStep]_vars
  /\ [](C6_NeverConnectedAfterFailure)

\* C6 (amended): as above, but after a failed connect connected is false
\* when the constructor raises and turns true only in a step in which the
\* transport invokes onConnected, which then throws "nobody waiting for
\* connection?".
C6_LateConnectStep ==
  (ops[ConnectFuture].status = "raised" /\ connected' = "true")
    => /\ last'.act = "onConnected"
       /\ last'.thrown = ErrNobodyConnection
       /\ UNCHANGED <<currentFuture, futures, ops>>

C6_Connect ==
  [][C6_SuccessStep /\ C6_OnceStep /\ C6_FailureStep /\ C6_LateConnectStep]_vars

\* C6 witness: the connect wait was failed by a disconnect and a later
\* onConnected set connected.
C6_Witness ==
  /\ ops[ConnectFuture].status = "raised"
  /\ last.act = "onConnected"
  /\ connected = "true"

\* C7 (the claim as stated, for the invocations that return): an
\* invocation that issued its transport request and has returned was
\* suspended exactly once and resumed exactly once.
C7_Original ==
  (last.finished # 0 /\ last.outcome = "returned"
     /\ ops[last.finished].cb # "none")
    => last.suspends = 1 /\ last.resumes = 1

\* C7 (amended): an invocation suspends at most once (not at all when its
\* Future was resolved or cleared during the transport call), is resumed as
\* often as it suspended, and under LiveSpec every invocation in flight
\* eventually returns or raises.
C7_Counts ==
  /\ last.finished # 0 => last.suspends \in {0, 1} /\ last.resumes = last.suspends
  /\ \A f \in DOMAIN ops :
       /\ ops[f].status = "suspended" => ops[f].suspends = 1 /\ ops[f].resumes = 0
       /\ ops[f].status = "calling" => ops[f].suspends = 0 /\ ops[f].resumes = 0

C7_Resumes ==
  /\ [](C7_Counts)
  /\ \A f \in 1..(MaxOps + 1) : InFlight(f) ~> ~InFlight(f)

\* C7 witness: an invocation that was suspended has been resumed by a
\* disconnect.
C7_Witness ==
  /\ last.act = "disconnect"
  /\ last.finished > ConnectFuture
  /\ last.suspends = 1
  /\ last.resumes = 1

\* C8: onError of a subscription whose Future is not the current one
\* throws its error, resolves no Future, runs no fiber and leaves
\* currentFuture unchanged.
C8_Step ==
  (last'.act = "onError" /\ currentFuture # last'.op)
    => /\ last'.thrown = last'.err
       /\ last'.resumed = 0
       /\ last'.finished = 0
       /\ UNCHANGED <<currentFuture, futures, connected>>
       /\ \A i \in DOMAIN ops : ops'[i].status = ops[i].status

C8_LateSubError == [][C8_Step]_vars

\* C8 witness: a late onError was thrown while another invocation is
\* suspended on the current Future.
C8_Witness ==
  /\ last.act = "onError"
  /\ last.thrown = last.err
  /\ currentFuture \notin {NULL, last.op}
  /\ Suspended(currentFuture)

\* C9: a forced-reconnect disconnect before the connect wait is resolved
\* throws nothing and leaves currentFuture, the futures and the suspended
\* constructor alone; an onConnected after it still resolves the connect
\* wait and the constructor returns.
C9_Step ==
  /\ (last'.act = "disconnect" /\ last'.err = ForcedReconnectError
        /\ ~futures[ConnectFuture].resolved)
       => /\ last'.thrown = NoError
          /\ last'.finished = 0
          /\ UNCHANGED <<currentFuture, futures, ops>>
          /\ currentFuture = ConnectFuture
  /\ (last'.act = "onConnected" /\ forcedIgnored
        /\ ~futures[ConnectFuture].resolved)
       => /\ futures'[ConnectFuture].resolved
          /\ futures'[ConnectFuture].err = NoError
          /\ last'.finished = ConnectFuture
          /\ last'.outcome = "returned"

C9_ForcedReconnectIgnored == [][C9_Step]_vars

\* C9 witness: the constructor returned after a forced reconnect was
\* ignored.
C9_Witness ==
  /\ forcedIgnored
  /\ last.act = "onConnected"
  /\ last.finished = ConnectFuture
  /\ last.outcome = "returned"

\* C10: a forced-reconnect disconnect after the connect wait is resolved
\* throws "disconnect before connect?" and resolves or clears no wait.
C10_Step ==
  (last'.act = "disconnect" /\ last'.err = ForcedReconnectError
     /\ futures[ConnectFuture].resolved)
    => /\ last'.thrown = ErrDisconnectBeforeConnect
       /\ last'.finished = 0
       /\ last'.resumed = 0
       /\ UNCHANGED <<currentFuture, futures, ops>>

C10_ForcedReconnectFatal == [][C10_Step]_vars

\* C10 witness: the fatal error was thrown while an invocation is suspended
\* on the current Future.
C10_Witness ==
  /\ last.act = "disconnect"
  /\ last.thrown = ErrDisconnectBeforeConnect
  /\ currentFuture # NULL
  /\ Suspended(currentFuture)

\* C11: a disconnect that is not a forced reconnect and finds currentFuture
\* null throws its error when one was supplied and throws nothing when none
\* was; either way currentFuture stays null, no Future is resolved and no
\* fiber runs again.
C11_Step ==
  (last'.act = "disconnect" /\ last'.err # ForcedReconnectError
     /\ currentFuture = NULL)
    => /\ last'.thrown = last'.err
       /\ (last'.thrown # NoError) <=> (last'.err \in Errors)
       /\ currentFuture' = NULL
       /\ last'.finished = 0
       /\ last'.resumed = 0
       /\ UNCHANGED <<futures, ops>>

C11_OrphanDisconnect == [][C11_Step]_vars

\* C11 witness: a disconnect with an error was re-raised while the facade
\* was idle after at least one finished operation.
C11_Witness ==
  /\ last.act = "disconnect"
  /\ last.err \in Errors
  /\ last.thrown = last.err
  /\ last.op = 0
  /\ currentFuture = NULL
  /\ Len(ops) > 1

\* C12: close() on a facade that holds a transport handle calls the
\* transport's close once and nulls the handle; close() on a facade whose
\* handle is null calls nothing and changes nothing, so the transport's
\* close is called at most once, and exactly once when the handle is null.
C12_Step ==
  last'.act = "close"
    => IF connection # Closed
       THEN /\ transport' = [transport EXCEPT !.close = transport.close + 1]
            /\ connection' = Closed
       ELSE UNCHANGED <<connection, connected, currentFuture, futures, ops,
                        transport, forcedIgnored>>

C12_ClosedOnce ==
  /\ transport.close \in {0, 1}
  /\ (connection = Closed) <=> (transport.close = 1)

C12_CloseIdempotent == []C12_ClosedOnce /\ [][C12_Step]_vars

\* C12 witness: a close() ran after an operation that was started on the
\* nulled handle (it reached no transport call), so it is a second close().
C12_Witness ==
  /\ last.act = "close"
  /\ connection = Closed
  /\ transport.close = 1
  /\ transport.apply + transport.subscribe < Len(ops) - 1

\* C13: close() leaves currentFuture, connected, the Futures and every
\* fiber as they are, and once the handle is null a suspended invocation
\* stops being suspended only in a result, onReady, onError or disconnect
\* step.
C13_Step ==
  last'.act = "close"
    => /\ UNCHANGED <<currentFuture, connected, futures, ops, forcedIgnored>>
       /\ last'.finished = 0
       /\ last'.resumed = 0
       /\ last'.thrown = NoError

C13_PendingStep ==
  \A f \in DOMAIN ops :
    (connection' = Closed /\ ops[f].status = "suspended"
       /\ ops'[f].status # "suspended")
      => /\ last'.act \in {"result", "onReady", "onError", "disconnect"}
         /\ last'.resumed = f

C13_CloseFrame == [][C13_Step /\ C13_PendingStep]_vars

\* C13 witness: an invocation that was suspended when close() ran is
\* resumed by a later result or onReady callback and returns.
C13_Witness ==
  /\ connection = Closed
  /\ last.act \in {"result", "onReady"}
  /\ last.resumed # 0
  /\ last.finished = last.resumed
  /\ last.outcome = "returned"

\* C14: whatever record the caller passes, the record DDP.connect receives
\* has retry = false, connectTimeoutMs = 15000 and the facade's own
\* onConnected, has every other field of the caller's record with the
\* caller's value and no further field, and the caller's record is as it
\* was.
C14_Forced == {"retry", "connectTimeoutMs", "onConnected"}

C14_Step ==
  last'.act = "init"
    => /\ transport'.connect = transport.connect + 1
       /\ DOMAIN objects'.connect = DOMAIN objects.caller \cup C14_Forced
       /\ objects'.connect["retry"] = "false"
       /\ objects'.connect["connectTimeoutMs"] = "15000"
       /\ objects'.connect["onConnected"] = "ServiceConnection.onConnected"
       /\ \A k \in DOMAIN objects.caller \ C14_Forced :
            objects'.connect[k] = objects.caller[k]
       /\ objects'.caller = objects.caller

C15_Step ==
  /\ last'.thrown # ErrResolvedTwice
  /\ \A f \in DOMAIN futures :
       /\ (~futures[f].resolved /\ futures'[f].resolved)
            => /\ currentFuture = f
               /\ currentFuture' = NULL
               /\ last'.act \in {"onConnected", "disconnect", "result",
                                 "onReady", "onError"}
       /\ futures[f].resolved => futures'[f].resolved

C15_CurrentUnresolved ==
  currentFuture # NULL => ~futures[currentFuture].resolved

C15_ResolvedOnce == []C15_CurrentUnresolved /\ [][C15_Step]_vars

\* C15 witness: a result callback arrives after a disconnect has failed
\* the wait of its invocation; it finds no slot and resolves nothing.
C15_Witness ==
  /\ last.act = "result"
  /\ last.thrown = ErrNobodyResult
  /\ futures[last.op].resolved
  /\ connected = "false"

\* C16: a Future that becomes resolved in an onConnected, result, onReady
\* or onError step is the Future created by the invocation that registered
\* that callback (only the disconnect listener resolves the Future of
\* whichever invocation is waiting).
C16_Step ==
  \A f \in DOMAIN futures :
    (~futures[f].resolved /\ futures'[f].resolved
       /\ last'.act \in {"onConnected", "result", "onReady", "onError"})
      => last'.op = f

C16_OwnCallback == [][C16_Step]_vars

\* C17: a result callback or an onReady that finds currentFuture null
\* throws "nobody listening for result?" / "nobody listening for subscribe
\* result?", resolves no Future, runs no fiber and leaves currentFuture and
\* connected as they are.
C17_Step ==
  (last'.act \in {"result", "onReady"} /\ currentFuture = NULL)
    => /\ last'.thrown = IF last'.act = "result"
                         THEN "nobody listening for result?"
                         ELSE "nobody listening for subscribe result?"
       /\ UNCHANGED <<currentFuture, connected, futures>>
       /\ last'.finished = 0
       /\ last'.resumed = 0
       /\ \A i \in DOMAIN ops : ops'[i].status = ops[i].status

C17_NobodyListening == [][C17_Step]_vars

\* C17 witness: an onReady was delivered while no wait was outstanding.
C17_Witness ==
  /\ last.act = "onReady"
  /\ last.thrown = ErrNobodySubResult
  /\ currentFuture = NULL
  /\ futures[last.op].resolved

\* C18 as stated: a disconnect step sets connected to false when its error
\* is not a forced reconnect, and leaves connected as it was when its error
\* is a forced reconnect (ignored or thrown as fatal).
C18_OriginalStep ==
  last'.act = "disconnect"
    => IF last'.err = ForcedReconnectError
       THEN connected' = connected
       ELSE connected' = "false"

C18_Original == [][C18_OriginalStep]_vars

\* C18: every disconnect step sets connected to false, whatever its error:
\* a forced reconnect that is ignored, one that is thrown as fatal, and
\* every other disconnect.
C18_Step ==
  last'.act = "disconnect"
    => /\ connected' = "false"
       /\ last'.err = ForcedReconnectError
            => /\ UNCHANGED <<currentFuture, futures, ops>>
               /\ last'.thrown \in {NoError, ErrDisconnectBeforeConnect}

C18_MarkedDisconnected == [][C18_Step]_vars

\* C18 witness: a forced reconnect arrived after onConnected had set
\* connected to true; it was thrown as fatal and connected is false.
C18_Witness ==
  /\ last.act = "disconnect"
  /\ last.err = ForcedReconnectError
  /\ last.thrown = ErrDisconnectBeforeConnect
  /\ connected = "false"
  /\ currentFuture = NULL

\* C19: currentFuture never holds the Future of an apply or
\* subscribeAndWait invocation that has returned or raised: a non-null
\* currentFuture belongs to an invocation that is suspended on it or on its
\* way to wait(), and a call is rejected with "Can't wait on two things at
\* once!" only while such an invocation exists.
C19_NoOrphanSlot ==
  /\ \A f \in DOMAIN ops :
       (ops[f].kind \in {"apply", "sub"}
          /\ ops[f].status \in {"returned", "raised"})
         => currentFuture # f
  /\ currentFuture # NULL => InFlight(currentFuture)
  /\ (last.act \in StartActs /\ last.out = ErrTwoThings)
       => \E f \in DOMAIN ops : InFlight(f)

\* C20: when the Future of an apply or subscribeAndWait invocation was
\* resolved during the transport call (by a result callback, onReady,
\* onError or a disconnect), the invocation's wait() ends it with that
\* resolution: it raises the error, or returns the value (apply) or the
\* subscription handle (subscribeAndWait), as it does when the resolution
\* comes after the caller has suspended.
C20_Step ==
  \A f \in DOMAIN ops :
    (last'.act \in {"applyWait", "subWait"} /\ last'.op = f
       /\ futures[f].resolved)
      => /\ last'.finished = f
         /\ IF futures[f].err # NoError
            THEN last'.outcome = "raised" /\ last'.out = futures[f].err
            ELSE /\ last'.outcome = "returned"
                 /\ last'.out = IF ops[f].kind = "apply"
                                THEN futures[f].val ELSE ops[f].sub

C20_TimingIndependent == [][C20_Step]_vars

====
